---- MODULE Spec2Model ----
(***************************************************************************)
(* State-machine model of the code-agent-eval runner.                      *)
(*                                                                         *)
(* runClaudeCodeEval validates the configuration, expands prompts x        *)
(* iterations into combinations, runs runSingleIteration for each of them  *)
(* under one of three execution modes and builds the EvalResult.           *)
(* JavaScript runs one continuation at a time, so every action below is    *)
(* the code between two awaits of one asynchronous function.               *)
(***************************************************************************)
EXTENDS Integers, Sequences, FiniteSets, TLC

\* ------------------------------------------------------------------ bounds
MaxPrompts == 2
MaxIterations == 3
MaxRuns == 3
MaxConcurrency == 2
MaxScorers == 1
MaxDetailedRuns == 1
MaxNameLen == 2
MaxMessages == 2

VARIABLES
    config,        \* the EvalConfig of the run
    world,         \* the source project and the fault the collaborators show
    runState,      \* position of runClaudeCodeEval
    combinations,  \* the prompt x iteration combinations of the run
    next,          \* number of combinations whose runSingleIteration was called
    started,       \* per combination: number of calls of runSingleIteration
    pc,            \* per combination: what its runSingleIteration awaits
    tempDir,       \* per combination: its tempDir path
    envVars,       \* per combination: its generated environment variables
    originalEnv,   \* per combination: its snapshot of process.env
    diff,          \* per combination: the captured git diff
    scores,        \* per combination: the scores collected so far
    result,        \* per combination: the IterationResult it resolves with
    results,       \* the results array of the execution mode
    processEnv,    \* process.env, shared by the whole process
    fs,            \* the file system: path -> directory content
    wrote,         \* per path: the combinations that wrote to or deleted it
    uuids,         \* number of randomUUID() calls made so far
    report,        \* the EvalResult returned by runClaudeCodeEval
    thrown,        \* the message of the Error runClaudeCodeEval rejects with
    lastCommand,   \* per combination: how the last execa of execCommand ended
    tokenUsage,    \* per combination: the token usage its agent reported
    written,       \* the files writeResults wrote into the results directory
    util,          \* the last call of a utility function: input and output
    stream,        \* per combination: the messages its agent's query() yields
    allMessages,   \* per combination: the messages collected from the stream
    scorerContext  \* per combination: the contexts its scorers were called with

vars == <<config, world, runState, combinations, next, started, pc, tempDir, envVars,
          originalEnv, diff, scores, result, results, processEnv, fs, wrote,
          uuids, report, thrown, lastCommand, tokenUsage, written, util,
          stream, allMessages, scorerContext>>

\* ------------------------------------------------------------ value spaces
Modes == {"sequential", "parallel", "parallel-limit"}

\* scores in tenths: 0.0, 0.5, 1.0
ScoreValues == {0, 5, 10}

\* paths: the source project and os.tmpdir()/eval-<uuid>
ProjectDir == <<"project">>
TmpDir(u) == <<"tmp", "eval", u>>
NoPath == << >>
Paths == {ProjectDir} \cup {TmpDir(u) : u \in 1..(MaxRuns + 1)}

\* a directory: whether it exists, holds a .git, has uncommitted changes to
\* tracked files, holds an untracked .env, and was modified by the agent
Missing == [exists |-> FALSE, git |-> FALSE, dirty |-> FALSE,
            envFile |-> FALSE, agentMod |-> FALSE, scorerMod |-> FALSE]
Dir(git, dirty) == [exists |-> TRUE, git |-> git, dirty |-> dirty,
                    envFile |-> FALSE, agentMod |-> FALSE, scorerMod |-> FALSE]

\* process.env before the run
InitialEnv == [k \in {"HOME"} |-> <<"home">>]
EmptyEnv == [k \in {} |-> << >>]

\* an optional number that is undefined
Undefined == -1

\* TokenUsage; reported is FALSE for a tokenUsage that is undefined
Usage(input, output, cacheCreation, cacheRead) ==
    [reported |-> TRUE, inputTokens |-> input, outputTokens |-> output,
     cacheCreationInputTokens |-> cacheCreation,
     cacheReadInputTokens |-> cacheRead]
NoUsage == [reported |-> FALSE, inputTokens |-> 0, outputTokens |-> 0,
            cacheCreationInputTokens |-> Undefined,
            cacheReadInputTokens |-> Undefined]

NoResult == [iterationId |-> -1, promptId |-> 0, success |-> FALSE,
             scores |-> << >>, diff |-> {}, error |-> "unset",
             workingDir |-> NoPath, environmentVariables |-> EmptyEnv,
             tokenUsage |-> NoUsage]
\* a number kept as the fraction num / den
Ratio(n, d) == [num |-> n, den |-> d]
RatioEq(a, b) == a.num * b.den = b.num * a.den
RatioSquare(a) == Ratio(a.num * a.num, a.den * a.den)

NoReport == [iterations |-> << >>, success |-> FALSE,
             tokenUsage |-> NoUsage,
             aggregateScores |-> << >>,
             overall |-> [mean |-> Ratio(0, 1), min |-> Ratio(0, 1),
                          max |-> Ratio(0, 1), variance |-> Ratio(0, 1),
                          passRate |-> Ratio(0, 1)]]

\* no utility function was called
NoCall == [fn |-> "none"]

NumRuns == config.prompts * config.iterations
Runs == 1..NumRuns
InFlight == {t \in DOMAIN pc : pc[t] \notin {"queued", "done", "rejected"}}

\* ------------------------------------------------------------ combinations
\* runSequential numbers a combination with results.length, which is still
\* the empty results array while the combinations are generated
SequentialIteration(k) == 0

\* runParallel and runParallelWithLimit number with iterationCounter++
CounterIteration(k) == k - 1

Combination(k, iteration) ==
    [promptId |-> ((k - 1) \div config.iterations) + 1, iteration |-> iteration]

GenerateCombinations ==
    [k \in 1..NumRuns |->
        Combination(k, IF config.mode = "sequential"
                       THEN SequentialIteration(k)
                       ELSE CounterIteration(k))]

\* a context that carries the iteration of the first combination
ContextOfFirst(t) == [iteration |-> combinations[1].iteration,
                      promptId |-> combinations[t].promptId]

\* EnvGeneratorContext of combination t
Context(t) == [iteration |-> combinations[t].iteration,
               promptId |-> combinations[t].promptId]

\* ------------------------------------------------------------- environment
\* generateEnvironmentVariables: {} when unset, a copy of the static object,
\* or the value of the configured function applied to the context
GenerateEnvironmentVariables(context) ==
    CASE config.environmentVariables = "none" -> EmptyEnv
      [] config.environmentVariables = "static" -> [k \in {"DB"} |-> <<"static">>]
      [] OTHER -> [k \in {"DB"} |-> <<"db", context.iteration>>]

\* Object.assign(target, source)
ObjectAssign(target, source) ==
    [k \in (DOMAIN target) \cup (DOMAIN source) |->
        IF k \in DOMAIN source THEN source[k] ELSE target[k]]

\* ---------------------------------------------------------------- git diff
\* git diff HEAD: the changes of tracked files against the last commit
GitDiff(dir) ==
    (IF dir.dirty THEN {"uncommitted"} ELSE {}) \cup
    (IF dir.agentMod THEN {"agent"} ELSE {}) \cup
    (IF dir.scorerMod THEN {"scorer"} ELSE {})

\* ------------------------------------------------------------------ sorting
\* Array.prototype.sort((a, b) => a.iterationId - b.iterationId), stable
RECURSIVE InsertSorted(_, _)
InsertSorted(s, r) ==
    IF s = << >> THEN <<r>>
    ELSE IF s[Len(s)].iterationId <= r.iterationId THEN Append(s, r)
    ELSE Append(InsertSorted(SubSeq(s, 1, Len(s) - 1), r), s[Len(s)])

\* the results left in the order they were collected
Unsorted(s) == s

RECURSIVE SortByIterationId(_)
SortByIterationId(s) ==
    IF s = << >> THEN << >>
    ELSE InsertSorted(SortByIterationId(SubSeq(s, 1, Len(s) - 1)), s[Len(s)])

\* ------------------------------------------------------------ configuration
Configs ==
    { c \in [prompts : 0..MaxPrompts, iterations : 1..MaxIterations,
             mode : Modes, concurrency : 0..MaxConcurrency,
             keepTempDir : BOOLEAN,
             tempDirCleanup : {"unset", "always", "on-failure", "never"},
             environmentVariables : {"none", "static", "function"},
             scorers : 0..MaxScorers,
             scorerKind : {"function", "command"}] :
        /\ c.mode # "parallel-limit" => c.concurrency = 0
        /\ c.tempDirCleanup # "unset" => ~c.keepTempDir
        /\ c.scorers = 0 => c.scorerKind = "function" }

\* the source project is a git repository or not, with or without uncommitted
\* changes; the agent edits tracked files or not; in one run the
\* collaborators show at most one kind of fault ("hang": the message stream
\* of the agent of the first combination never ends)
Faults == {"none", "env", "copy", "git", "agent", "diff", "scorer", "hang"}

\* the agent's result message carries no usage, or one of several usages
Worlds ==
    { w \in [srcGit : BOOLEAN, srcDirty : BOOLEAN, agentEdits : BOOLEAN,
             fault : Faults, usage : {"none", "varied"}] :
        /\ w.srcDirty => w.srcGit
        /\ w.fault = "git" => ~w.srcGit }

\* runs of up to MaxRuns combinations in every mode, with generated
\* environment variables, no scorer, removed temp directories and a clean
\* git project
SchedulingScenarios ==
    { s \in [config : Configs, world : Worlds] :
        /\ s.config.prompts * s.config.iterations \in 1..MaxRuns
        /\ s.config.environmentVariables = "function"
        /\ s.config.scorers = 0
        /\ ~s.config.keepTempDir
        /\ s.config.tempDirCleanup = "unset"
        /\ s.world.srcGit /\ ~s.world.srcDirty /\ s.world.agentEdits
        /\ s.world.usage = "none"
        /\ s.world.fault \in {"none", "env", "copy", "agent", "diff"} }

\* sequential runs of up to MaxRuns combinations whose agents report token
\* usage
UsageScenarios ==
    { s \in [config : Configs, world : Worlds] :
        /\ s.config.prompts * s.config.iterations \in 1..MaxRuns
        /\ s.config.mode = "sequential"
        /\ s.config.environmentVariables = "none"
        /\ s.config.scorers = 0
        /\ ~s.config.keepTempDir
        /\ s.config.tempDirCleanup = "unset"
        /\ s.world.srcGit /\ ~s.world.srcDirty /\ s.world.agentEdits
        /\ s.world.usage = "varied"
        /\ s.world.fault \in {"none", "agent"} }

\* sequential runs of up to MaxRuns combinations with scorers, written as
\* functions or with execCommand, and a clean git project
ScoringScenarios ==
    { s \in [config : Configs, world : Worlds] :
        /\ s.config.prompts * s.config.iterations \in 1..MaxRuns
        /\ s.config.mode = "sequential"
        /\ s.config.environmentVariables = "none"
        /\ s.config.scorers > 0
        /\ ~s.config.keepTempDir
        /\ s.config.tempDirCleanup \in {"unset", "on-failure"}
        /\ s.world.srcGit /\ ~s.world.srcDirty /\ s.world.agentEdits
        /\ s.world.usage = "none"
        /\ s.world.fault \in {"none", "agent", "scorer", "hang"}
        /\ s.world.fault = "scorer" => s.config.scorerKind = "function" }

\* runs of up to MaxDetailedRuns combinations with every configuration and
\* every world
DetailedScenarios ==
    { s \in [config : Configs, world : Worlds] :
        /\ s.config.prompts * s.config.iterations \in 1..MaxDetailedRuns
        /\ s.config.mode = "sequential"
        /\ s.world.fault = "scorer" =>
              s.config.scorers > 0 /\ s.config.scorerKind = "function"
        /\ s.world.fault = "env" => s.config.environmentVariables = "function" }

\* configurations that runClaudeCodeEval refuses
InvalidScenarios ==
    { s \in [config : Configs, world : Worlds] :
        /\ \/ s.config.prompts = 0
           \/ s.config.mode = "parallel-limit" /\ s.config.concurrency = 0
        /\ s.config.iterations = 1
        /\ s.config.environmentVariables = "none"
        /\ s.config.scorers = 0
        /\ ~s.config.keepTempDir
        /\ s.config.tempDirCleanup = "unset"
        /\ s.world = [srcGit |-> TRUE, srcDirty |-> FALSE, agentEdits |-> TRUE,
                      fault |-> "none", usage |-> "none"] }

Scenarios ==
    SchedulingScenarios \cup ScoringScenarios \cup UsageScenarios
        \cup DetailedScenarios \cup InvalidScenarios

Init ==
    /\ \E s \in Scenarios : config = s.config /\ world = s.world
    /\ runState = "validating"
    /\ combinations = << >>
    /\ next = 0
    /\ started = << >>
    /\ pc = << >>
    /\ tempDir = << >>
    /\ envVars = << >>
    /\ originalEnv = << >>
    /\ diff = << >>
    /\ scores = << >>
    /\ result = << >>
    /\ results = << >>
    /\ processEnv = InitialEnv
    /\ fs = [p \in Paths |-> IF p = ProjectDir
                             THEN Dir(world.srcGit, world.srcDirty)
                             ELSE Missing]
    /\ wrote = [p \in Paths |-> {}]
    /\ uuids = 0
    /\ report = NoReport
    /\ thrown = ""
    /\ lastCommand = << >>
    /\ tokenUsage = << >>
    /\ written = {}
    /\ util = NoCall
    /\ stream = << >>
    /\ allMessages = << >>
    /\ scorerContext = << >>

\* --------------------------------------------------------------- validation
\* a configuration that refuses every value of concurrency but a missing one
ConfigurationErrorPromptsOnly == config.prompts = 0

\* a configuration that refuses a missing concurrency but no empty prompts
ConfigurationErrorConcurrencyOnly ==
    config.mode = "parallel-limit" /\ config.concurrency = 0

\* !config.prompts || config.prompts.length === 0, then
\* execution.mode === 'parallel-limit' && !execution.concurrency
ConfigurationError ==
    \/ config.prompts = 0
    \/ config.mode = "parallel-limit" /\ config.concurrency = 0

\* the message of the first check that fails
ConfigurationErrorMessage ==
    IF config.prompts = 0
    THEN "At least one prompt is required in config.prompts array"
    ELSE "concurrency is required when mode is parallel-limit"

ValidateOk ==
    /\ runState = "validating"
    /\ ~ConfigurationError
    /\ runState' = "running"
    /\ combinations' = GenerateCombinations
    /\ started' = [t \in Runs |-> 0]
    /\ pc' = [t \in Runs |-> "queued"]
    /\ tempDir' = [t \in Runs |-> NoPath]
    /\ envVars' = [t \in Runs |-> EmptyEnv]
    /\ originalEnv' = [t \in Runs |-> EmptyEnv]
    /\ diff' = [t \in Runs |-> {}]
    /\ scores' = [t \in Runs |-> << >>]
    /\ result' = [t \in Runs |-> NoResult]
    /\ lastCommand' = [t \in Runs |-> "none"]
    /\ tokenUsage' = [t \in Runs |-> NoUsage]
    /\ stream' = [t \in Runs |-> << >>]
    /\ allMessages' = [t \in Runs |-> << >>]
    /\ scorerContext' = [t \in Runs |-> << >>]
    /\ UNCHANGED <<written, util, thrown, config, world, next, results, processEnv, fs, wrote, uuids, 
                   report>>

ValidateThrow ==
    /\ runState = "validating"
    /\ ConfigurationError
    /\ runState' = "configError"
    /\ thrown' = ConfigurationErrorMessage
    /\ UNCHANGED <<scorerContext, stream, allMessages, tokenUsage, written, util, lastCommand, config, world, combinations, next, started, pc, tempDir, envVars,
                   originalEnv, diff, scores, result, results, processEnv, fs,
                   wrote, uuids, report>>

\* ---------------------------------------------------------------- scheduler
\* pLimit(tasks, concurrency) calls the next task while fewer than
\* concurrency tasks are pending
PLimitAdmitsOneMore == Cardinality(InFlight) <= config.concurrency

PLimitAdmits == Cardinality(InFlight) < config.concurrency

\* a loop that stops calling runSingleIteration after a failed result
MayStartAfterSuccess(t) ==
    CASE config.mode = "sequential" ->
            \A u \in 1..(t - 1) : pc[u] = "done" /\ result[u].error = ""
      [] config.mode = "parallel" -> TRUE
      [] OTHER -> PLimitAdmits

\* a sequential loop that calls the next runSingleIteration as soon as the
\* previous one has its result, before its temp directory is removed
MayStartBeforeRemove(t) ==
    CASE config.mode = "sequential" ->
            \A u \in 1..(t - 1) : pc[u] \in {"remove", "done"}
      [] config.mode = "parallel" -> TRUE
      [] OTHER -> PLimitAdmits

\* a parallel mode that awaits each runSingleIteration before the next call
MayStartOneAtATime(t) ==
    CASE config.mode = "sequential" -> \A u \in 1..(t - 1) : pc[u] = "done"
      [] config.mode = "parallel" -> \A u \in 1..(t - 1) : pc[u] = "done"
      [] OTHER -> PLimitAdmits

\* a pLimit that calls every task at once
MayStartUnlimited(t) ==
    CASE config.mode = "sequential" -> \A u \in 1..(t - 1) : pc[u] = "done"
      [] config.mode = "parallel" -> TRUE
      [] OTHER -> TRUE

MayStart(t) ==
    CASE config.mode = "sequential" -> \A u \in 1..(t - 1) : pc[u] = "done"
      [] config.mode = "parallel" -> TRUE
      [] OTHER -> PLimitAdmits

\* the mode calls the next runSingleIteration in the same continuation that
\* observed the completion admitting it (combinations.map of runParallel calls
\* them all at once); no rejected promise is followed by another call
StartPending ==
    /\ runState = "running"
    /\ next < NumRuns
    /\ \A u \in Runs : pc[u] # "rejected"
    /\ MayStart(next + 1)

MayStep == ~StartPending

\* randomUUID(): a value never returned before
RandomUUID == uuids + 1

\* one evalId shared by every call
TempDirShared(t, uuid) == TmpDir(1)

\* path.join(os.tmpdir(), `eval-${evalId}`)
TempDirOf(t, uuid) == TmpDir(uuid)

\* runSingleIteration is called for combination t and runs to its first await
Start(t) ==
    /\ StartPending
    /\ t = next + 1
    /\ next' = t
    /\ started' = [started EXCEPT ![t] = @ + 1]
    /\ uuids' = uuids + 1
    /\ tempDir' = [tempDir EXCEPT ![t] = TempDirOf(t, RandomUUID)]
    /\ pc' = [pc EXCEPT ![t] = "env"]
    /\ UNCHANGED <<scorerContext, stream, allMessages, tokenUsage, written, util, thrown, lastCommand, config, world, runState, combinations, envVars, originalEnv, diff,
                   scores, result, results, processEnv, fs, wrote, report>>

\* the results array of the mode receives a resolved IterationResult:
\* results.push in runSequential and in pLimit; Promise.all keeps call order
CollectTwice(res) ==
    IF config.mode = "parallel" THEN results ELSE Append(Append(results, res), res)

Collect(res) ==
    IF config.mode = "parallel" THEN results ELSE Append(results, res)

\* ------------------------------------------------------ runSingleIteration
\* a cleanup that under 'on-failure' deletes the directories of the failed
\* iterations
TempDirCleanupKeepsSucceeded(policy, success) ==
    CASE policy = "always" -> TRUE
      [] policy = "on-failure" -> ~success
      [] OTHER -> FALSE

\* tempDirCleanup: 'always' deletes after every iteration, 'on-failure'
\* keeps only the directories of failed iterations, 'never' keeps them all
TempDirCleanupRemoves(policy, success) ==
    CASE policy = "always" -> TRUE
      [] policy = "on-failure" -> success
      [] OTHER -> FALSE

\* under tempDirCleanup the result records the path of a kept directory
TempDirCleanupWorkingDir(t, success) ==
    IF ~TempDirCleanupRemoves(config.tempDirCleanup, success) /\ fs[tempDir[t]].exists
    THEN tempDir[t]
    ELSE NoPath

\* workingDir: config.keepTempDir ? tempDir : undefined
WorkingDirOnReturn(t, success) ==
    IF config.tempDirCleanup = "unset"
    THEN IF config.keepTempDir THEN tempDir[t] ELSE NoPath
    ELSE TempDirCleanupWorkingDir(t, success)

\* the result of the catch block has no workingDir
WorkingDirOnCatch(t) ==
    IF config.tempDirCleanup = "unset"
    THEN NoPath
    ELSE TempDirCleanupWorkingDir(t, FALSE)

\* a catch that returns what the iteration had collected before the error
ErrorResultKeepsPartial(t, message) ==
    [iterationId |-> Context(t).iteration,
     promptId |-> combinations[t].promptId,
     success |-> FALSE,
     scores |-> scores[t],
     diff |-> diff[t],
     error |-> message,
     workingDir |-> WorkingDirOnCatch(t),
     environmentVariables |-> envVars[t],
     tokenUsage |-> NoUsage]

ErrorResult(t, message) ==
    [iterationId |-> Context(t).iteration,
     promptId |-> combinations[t].promptId,
     success |-> FALSE,
     scores |-> << >>,
     diff |-> {},
     error |-> message,
     workingDir |-> WorkingDirOnCatch(t),
     environmentVariables |-> envVars[t],
     tokenUsage |-> NoUsage]

\* a success that needs at least one score
SuccessNeedsAScore(sc) == sc # << >> /\ \A i \in DOMAIN sc : sc[i] = 10

SuccessAtLeastHalf(sc) == \A i \in DOMAIN sc : sc[i] >= 5

\* Object.values(scores).every((s) => s.score === 1.0)
Success(sc) == \A i \in DOMAIN sc : sc[i] = 10

\* if (!config.keepTempDir) await fs.remove(tempDir)
KeepTempDirRemoves(keepTempDir) == ~keepTempDir

ShouldRemove(success) ==
    IF config.tempDirCleanup = "unset"
    THEN KeepTempDirRemoves(config.keepTempDir)
    ELSE TempDirCleanupRemoves(config.tempDirCleanup, success)

SuccessResult(t, sc, d) ==
    [iterationId |-> Context(t).iteration,
     promptId |-> combinations[t].promptId,
     success |-> Success(sc),
     scores |-> sc,
     diff |-> d,
     error |-> "",
     workingDir |-> WorkingDirOnReturn(t, Success(sc)),
     environmentVariables |-> envVars[t],
     tokenUsage |-> tokenUsage[t]]

\* finally { process.env = originalEnv }
RestoredEnv(t) == originalEnv[t]

\* the return or catch of runSingleIteration, then its finally blocks up to
\* the await of fs.remove; with a kept tempDir the promise resolves at once;
\* the message stream, allMessages and the scorer contexts, locals of the try
\* block, are gone
Finish(t, res, inAgentTry) ==
    /\ result' = [result EXCEPT ![t] = res]
    /\ stream' = [stream EXCEPT ![t] = << >>]
    /\ allMessages' = [allMessages EXCEPT ![t] = << >>]
    /\ scorerContext' = [scorerContext EXCEPT ![t] = << >>]
    /\ processEnv' = IF inAgentTry THEN RestoredEnv(t) ELSE processEnv
    /\ IF ShouldRemove(res.success)
       THEN /\ pc' = [pc EXCEPT ![t] = "remove"]
            /\ UNCHANGED results
       ELSE /\ pc' = [pc EXCEPT ![t] = "done"]
            /\ results' = Collect(res)

\* generateEnvironmentVariables resolved and validateEnvironmentVariables
\* passed; fs.copy is called
EnvDone(t) ==
    /\ MayStep
    /\ pc[t] = "env"
    /\ envVars' = [envVars EXCEPT ![t] = GenerateEnvironmentVariables(Context(t))]
    /\ pc' = [pc EXCEPT ![t] = "copy"]
    /\ UNCHANGED <<scorerContext, stream, allMessages, tokenUsage, written, util, thrown, lastCommand, config, world, runState, combinations, next, started, tempDir,
                   originalEnv, diff, scores, result, results, processEnv, fs,
                   wrote, uuids, report>>

\* the configured function throws, or validateEnvironmentVariables throws:
\* both are outside the try of runSingleIteration, whose promise rejects
EnvThrow(t) ==
    /\ MayStep
    /\ world.fault = "env"
    /\ pc[t] = "env"
    /\ config.environmentVariables = "function"
    /\ pc' = [pc EXCEPT ![t] = "rejected"]
    /\ UNCHANGED <<scorerContext, stream, allMessages, tokenUsage, written, util, thrown, lastCommand, config, world, runState, combinations, next, started, tempDir,
                   envVars, originalEnv, diff, scores, result, results,
                   processEnv, fs, wrote, uuids, report>>

\* fs.copy(config.projectDir, tempDir) done; fs.pathExists(.git) is called
CopyTarget(t) == tempDir[t]

CopyDone(t) ==
    /\ MayStep
    /\ pc[t] = "copy"
    /\ fs' = [fs EXCEPT ![CopyTarget(t)] = fs[ProjectDir]]
    /\ wrote' = [wrote EXCEPT ![CopyTarget(t)] = @ \cup {t}]
    /\ pc' = [pc EXCEPT ![t] = "git"]
    /\ UNCHANGED <<scorerContext, stream, allMessages, tokenUsage, written, util, thrown, lastCommand, config, world, runState, combinations, next, started, tempDir,
                   envVars, originalEnv, diff, scores, result, results,
                   processEnv, uuids, report>>

CopyFail(t) ==
    /\ MayStep
    /\ world.fault = "copy"
    /\ pc[t] = "copy"
    /\ Finish(t, ErrorResult(t, "copy failed"), FALSE)
    /\ UNCHANGED <<tokenUsage, written, util, thrown, lastCommand, config, world, runState, combinations, next, started, tempDir,
                   envVars, originalEnv, diff, scores, fs, wrote, uuids,
                   report>>

\* git init, git add ., git commit when the copy holds no .git; then the
\* .env file is written when envVars is not empty
GitBaseline(dir) ==
    IF dir.git THEN dir ELSE [dir EXCEPT !.git = TRUE, !.dirty = FALSE]

GitDone(t) ==
    /\ MayStep
    /\ pc[t] = "git"
    /\ fs' = [fs EXCEPT ![tempDir[t]] = GitBaseline(@)]
    /\ wrote' = [wrote EXCEPT ![tempDir[t]] = @ \cup {t}]
    /\ pc' = [pc EXCEPT ![t] = "write"]
    /\ UNCHANGED <<scorerContext, stream, allMessages, tokenUsage, written, util, thrown, lastCommand, config, world, runState, combinations, next, started, tempDir,
                   envVars, originalEnv, diff, scores, result, results,
                   processEnv, uuids, report>>

GitFail(t) ==
    /\ MayStep
    /\ world.fault = "git"
    /\ pc[t] = "git"
    /\ ~fs[tempDir[t]].git
    /\ Finish(t, ErrorResult(t, "git failed"), FALSE)
    /\ UNCHANGED <<tokenUsage, written, util, thrown, lastCommand, config, world, runState, combinations, next, started, tempDir,
                   envVars, originalEnv, diff, scores, fs, wrote, uuids,
                   report>>

\* fs.writeFile(tempDir/.env) done (skipped for empty envVars); process.env
\* is saved and overwritten, query() is called and its first message awaited
WriteEnvFile(dir, values) ==
    IF DOMAIN values # {} THEN [dir EXCEPT !.envFile = TRUE] ELSE dir

\* the usage of the agent's result message, read as input_tokens || 0,
\* output_tokens || 0, cache_creation_input_tokens, cache_read_input_tokens;
\* tokenUsage stays undefined without a result message that has a usage
AgentUsages ==
    IF world.usage = "none" THEN {NoUsage}
    ELSE {NoUsage,
          Usage(0, 1, Undefined, Undefined),
          Usage(1, 0, Undefined, 2),
          Usage(2, 1, 1, Undefined)}

\* the messages of an agent: assistant messages, and result messages with
\* or without a usage
Messages ==
    {[type |-> "assistant", usage |-> NoUsage]}
        \cup {[type |-> "result", usage |-> u] : u \in AgentUsages}

\* the message streams query() can return: none but the empty one for an
\* agent that reports no usage, else every stream of up to MaxMessages
\* messages
Streams ==
    IF world.usage = "none" THEN {<< >>}
    ELSE UNION { [1..n -> Messages] : n \in 0..MaxMessages }

InvokeAgent(t) ==
    /\ MayStep
    /\ pc[t] = "write"
    /\ fs' = [fs EXCEPT ![tempDir[t]] = WriteEnvFile(@, envVars[t])]
    /\ wrote' = [wrote EXCEPT ![tempDir[t]] = @ \cup {t}]
    /\ originalEnv' = [originalEnv EXCEPT ![t] = processEnv]
    /\ processEnv' = ObjectAssign(processEnv, envVars[t])
    /\ \E s \in Streams : stream' = [stream EXCEPT ![t] = s]
    /\ pc' = [pc EXCEPT ![t] = "agent"]
    /\ UNCHANGED <<scorerContext, allMessages, tokenUsage, written, util, thrown, lastCommand, config, world, runState, combinations, next, started, tempDir,
                   envVars, diff, scores, result, results, uuids, 
                   report>>

\* query({ options: { cwd: tempDir } }): the directory the agent works in
AgentCwdProjectDir(t) == ProjectDir

AgentCwd(t) == tempDir[t]

\* the agent's message stream ends; git diff HEAD is called
AgentHangs(t) == world.fault = "hang" /\ t = 1

\* for await (const message of result): allMessages.push(message), and
\* tokenUsage is taken from a result message that has a usage
AgentMessage(t) ==
    /\ MayStep
    /\ pc[t] = "agent"
    /\ Len(allMessages[t]) < Len(stream[t])
    /\ LET message == stream[t][Len(allMessages[t]) + 1]
       IN  /\ allMessages' = [allMessages EXCEPT ![t] = Append(@, message)]
           /\ tokenUsage' = IF message.type = "result" /\ message.usage.reported
                            THEN [tokenUsage EXCEPT ![t] = message.usage]
                            ELSE tokenUsage
    /\ UNCHANGED <<scorerContext, stream, written, util, thrown, lastCommand, config, world, runState, combinations, next, started, pc, tempDir,
                   envVars, originalEnv, diff, scores, result, results,
                   processEnv, fs, wrote, uuids, report>>

\* a loop that leaves the stream at its first result message
DrainedToResult(t) ==
    \/ Len(allMessages[t]) = Len(stream[t])
    \/ \E i \in DOMAIN allMessages[t] : allMessages[t][i].type = "result"

\* the for await loop ends when the stream is done
Drained(t) == Len(allMessages[t]) = Len(stream[t])

AgentDone(t) ==
    /\ MayStep
    /\ pc[t] = "agent"
    /\ ~AgentHangs(t)
    /\ Drained(t)
    /\ fs' = [fs EXCEPT ![AgentCwd(t)] = [@ EXCEPT !.agentMod = world.agentEdits]]
    /\ wrote' = [wrote EXCEPT ![AgentCwd(t)] = @ \cup {t}]
    /\ pc' = [pc EXCEPT ![t] = "diff"]
    /\ UNCHANGED <<scorerContext, stream, allMessages, tokenUsage, written, util, thrown, lastCommand, config, world, runState, combinations, next, started, tempDir,
                   envVars, originalEnv, diff, scores, result, results,
                   processEnv, uuids, report>>

AgentFail(t) ==
    /\ MayStep
    /\ world.fault = "agent"
    /\ pc[t] = "agent"
    /\ ~AgentHangs(t)
    /\ Finish(t, ErrorResult(t, "agent failed"), TRUE)
    /\ UNCHANGED <<tokenUsage, written, util, thrown, lastCommand, config, world, runState, combinations, next, started, tempDir,
                   envVars, originalEnv, diff, scores, fs, wrote, uuids,
                   report>>

\* git diff HEAD done; the first scorer is called, or without scorers the
\* result is returned
\* a diff taken anew from the directory wherever it is read
DiffValueRecomputed(captured, dir) == GitDiff(dir)

\* const diff, read by every scorer context and by the returned result
DiffValue(captured, dir) == captured

\* the context scorer.fn is called with
ScorerContext(t, d) ==
    [workingDir |-> tempDir[t], diff |-> d, agentOutput |-> allMessages[t],
     environmentVariables |-> envVars[t]]

\* a scorer that runs a command (build, test, lint) changes files of the
\* directory it runs in
ScorerEffect(dir) ==
    IF config.scorerKind = "command" THEN [dir EXCEPT !.scorerMod = TRUE] ELSE dir

DiffDone(t) ==
    /\ MayStep
    /\ pc[t] = "diff"
    /\ diff' = [diff EXCEPT ![t] = GitDiff(fs[tempDir[t]])]
    /\ IF config.scorers = 0
       THEN Finish(t, SuccessResult(t, << >>, DiffValue(diff'[t], fs[tempDir[t]])), TRUE)
       ELSE /\ pc' = [pc EXCEPT ![t] = "score"]
            /\ scorerContext' =
                  [scorerContext EXCEPT
                     ![t] = <<ScorerContext(t, DiffValue(diff'[t], fs[tempDir[t]]))>>]
            /\ UNCHANGED <<stream, allMessages, result, results, processEnv>>
    /\ UNCHANGED <<tokenUsage, written, util, thrown, lastCommand, config, world, runState, combinations, next, started, tempDir,
                   envVars, originalEnv, scores, fs, wrote, uuids, report>>

DiffFail(t) ==
    /\ MayStep
    /\ world.fault = "diff"
    /\ pc[t] = "diff"
    /\ Finish(t, ErrorResult(t, "diff failed"), TRUE)
    /\ UNCHANGED <<tokenUsage, written, util, thrown, lastCommand, config, world, runState, combinations, next, started, tempDir,
                   envVars, originalEnv, diff, scores, fs, wrote, uuids,
                   report>>

\* how the execa call of execCommand ends: the command exits with code 0,
\* exits with another code, cannot be spawned, or exceeds the timeout; execa
\* resolves in the first case and throws in the others
CommandOutcomes == {"exit0", "nonzero", "spawn", "timeout"}

ExecaResolves(outcome) == outcome = "exit0"

\* an execCommand whose catch lets the timeout of execa through
ExecCommandTimeoutEscapes(outcome) ==
    IF ExecaResolves(outcome)
    THEN [threw |-> FALSE, score |-> 10, reason |-> "passed"]
    ELSE [threw |-> outcome = "timeout", score |-> 0, reason |-> outcome]

\* the function buildExecCommand returns: try { await execa(...); return
\* score 1.0 } catch (error) { return score 0.0 with the error message }
ExecCommand(outcome) ==
    IF ExecaResolves(outcome)
    THEN [threw |-> FALSE, score |-> 10, reason |-> "passed"]
    ELSE [threw |-> FALSE, score |-> 0, reason |-> outcome]

\* what a scorer call can end with: a scorer function returns any score; a
\* scorer made of execCommand (buildSuccess, testSuccess, lintSuccess) ends
\* as execCommand ends
ScorerReturns ==
    IF config.scorerKind = "command"
    THEN { [threw |-> ExecCommand(o).threw, score |-> ExecCommand(o).score,
            command |-> o] : o \in CommandOutcomes }
    ELSE { [threw |-> FALSE, score |-> v, command |-> "none"] : v \in ScoreValues }
           \cup (IF world.fault = "scorer"
                 THEN {[threw |-> TRUE, score |-> 0, command |-> "none"]}
                 ELSE {})

\* a scorer resolves with its score; after the last one the result is returned
ScorerDone(t) ==
    /\ MayStep
    /\ pc[t] = "score"
    /\ \E s \in ScorerReturns :
        /\ ~s.threw
        /\ scores' = [scores EXCEPT ![t] = Append(@, s.score)]
        /\ lastCommand' = [lastCommand EXCEPT ![t] = s.command]
        /\ fs' = [fs EXCEPT ![tempDir[t]] = ScorerEffect(@)]
        /\ wrote' = [wrote EXCEPT ![tempDir[t]] = @ \cup {t}]
        /\ IF Len(scores'[t]) = config.scorers
           THEN Finish(t, SuccessResult(t, scores'[t],
                                        DiffValue(diff[t], fs'[tempDir[t]])), TRUE)
           ELSE /\ scorerContext' =
                     [scorerContext EXCEPT
                        ![t] = Append(@, ScorerContext(t, DiffValue(diff[t],
                                                               fs'[tempDir[t]])))]
                /\ UNCHANGED <<stream, allMessages, pc, result, results, processEnv>>
    /\ UNCHANGED <<tokenUsage, written, util, thrown, config, world, runState, combinations, next, started, tempDir,
                   envVars, originalEnv, diff, uuids, report>>

\* await scorer.fn(...) throws inside the try of runSingleIteration: its
\* catch returns the error result
ScorerThrow(t) ==
    /\ MayStep
    /\ pc[t] = "score"
    /\ \E s \in ScorerReturns :
        /\ s.threw
        /\ lastCommand' = [lastCommand EXCEPT ![t] = s.command]
    /\ Finish(t, ErrorResult(t, "scorer failed"), TRUE)
    /\ UNCHANGED <<tokenUsage, written, util, thrown, config, world, runState, combinations, next, started, tempDir,
                   envVars, originalEnv, diff, scores, fs, wrote, uuids,
                   report>>

\* fs.remove(tempDir) done: the promise of runSingleIteration resolves
RemoveTarget(t) == tempDir[t]

RemoveDone(t) ==
    /\ MayStep
    /\ pc[t] = "remove"
    /\ fs' = [fs EXCEPT ![RemoveTarget(t)] = Missing]
    /\ wrote' = [wrote EXCEPT ![RemoveTarget(t)] = @ \cup {t}]
    /\ pc' = [pc EXCEPT ![t] = "done"]
    /\ results' = Collect(result[t])
    /\ UNCHANGED <<scorerContext, stream, allMessages, tokenUsage, written, util, thrown, lastCommand, config, world, runState, combinations, next, started, tempDir,
                   envVars, originalEnv, diff, scores, result, processEnv,
                   uuids, report>>

\* ------------------------------------------------------------------- report
\* Promise.all(promises): the results in the order of the calls
PromiseAll == [t \in Runs |-> result[t]]

ModeResults ==
    CASE config.mode = "sequential" -> results
      [] config.mode = "parallel" -> SortByIterationId(PromiseAll)
      [] OTHER -> SortByIterationId(results)

\* calculateAggregateScores. Scores are in tenths; a scorer is named by its
\* position in config.scorers; stdDev is Math.sqrt of the variance kept here.
ScorerNames(rs) == UNION {DOMAIN rs[i].scores : i \in DOMAIN rs}

\* results.map(r => r.scores[scorerName]?.score).filter(s => s !== undefined)
RECURSIVE ScoresOf(_, _)
ScoresOf(rs, name) ==
    IF rs = << >> THEN << >>
    ELSE IF name \in DOMAIN Head(rs).scores
         THEN <<Head(rs).scores[name]>> \o ScoresOf(Tail(rs), name)
         ELSE ScoresOf(Tail(rs), name)

RECURSIVE Sum(_)
Sum(sc) == IF sc = << >> THEN 0 ELSE Head(sc) + Sum(Tail(sc))

Min(sc) == CHOOSE m \in {sc[i] : i \in DOMAIN sc} : \A i \in DOMAIN sc : m <= sc[i]
Max(sc) == CHOOSE m \in {sc[i] : i \in DOMAIN sc} : \A i \in DOMAIN sc : m >= sc[i]

\* sum of (score - mean)^2 with every term scaled by (10 * scores.length)^2
SquaredDeviations(sc) ==
    Sum([i \in DOMAIN sc |-> (Len(sc) * sc[i] - Sum(sc)) * (Len(sc) * sc[i] - Sum(sc))])

\* a count of the scores that are not 0
PassCountNonZero(sc) == Cardinality({i \in DOMAIN sc : sc[i] > 0})

\* scores.filter(s => s >= 1.0).length
PassCount(sc) == Cardinality({i \in DOMAIN sc : sc[i] >= 10})

AggregateScore(sc) ==
    [mean |-> Ratio(Sum(sc), 10 * Len(sc)),
     min |-> Ratio(Min(sc), 10),
     max |-> Ratio(Max(sc), 10),
     variance |-> Ratio(SquaredDeviations(sc), 100 * Len(sc) * Len(sc) * Len(sc)),
     passRate |-> Ratio(PassCount(sc), Len(sc))]

\* aggregates._overall, built from results.filter(r => r.success).length
OverallAggregate(rs) ==
    LET overallPassRate ==
            Ratio(Cardinality({i \in DOMAIN rs : rs[i].success}), Len(rs))
    IN  [mean |-> overallPassRate,
         min |-> overallPassRate,
         max |-> overallPassRate,
         variance |-> Ratio(0, 1),
         passRate |-> overallPassRate]

CalculateAggregateScores(rs) ==
    [name \in ScorerNames(rs) |-> AggregateScore(ScoresOf(rs, name))]

\* the || 0 of an optional number
OrZero(x) == IF x = Undefined THEN 0 ELSE x

\* a total that adds the cache tokens of the first result only
TotalTokenUsageFirstCacheOnly(rs) ==
    Usage(Sum([i \in DOMAIN rs |-> rs[i].tokenUsage.inputTokens]),
          Sum([i \in DOMAIN rs |-> rs[i].tokenUsage.outputTokens]),
          IF rs = << >> THEN 0 ELSE OrZero(rs[1].tokenUsage.cacheCreationInputTokens),
          IF rs = << >> THEN 0 ELSE OrZero(rs[1].tokenUsage.cacheReadInputTokens))

\* results.reduce over the results that have a tokenUsage, from a total of
\* zeros
RECURSIVE TotalTokenUsage(_)
TotalTokenUsage(rs) ==
    IF rs = << >> THEN Usage(0, 0, 0, 0)
    ELSE LET acc == TotalTokenUsage(SubSeq(rs, 1, Len(rs) - 1))
             r == rs[Len(rs)]
         IN  IF r.tokenUsage.reported
             THEN Usage(acc.inputTokens + r.tokenUsage.inputTokens,
                        acc.outputTokens + r.tokenUsage.outputTokens,
                        acc.cacheCreationInputTokens
                            + OrZero(r.tokenUsage.cacheCreationInputTokens),
                        acc.cacheReadInputTokens
                            + OrZero(r.tokenUsage.cacheReadInputTokens))
             ELSE acc

\* tokenUsage: totalTokenUsage.inputTokens > 0 ? totalTokenUsage : undefined
ReportTokenUsage(rs) ==
    IF TotalTokenUsage(rs).inputTokens > 0 THEN TotalTokenUsage(rs) ELSE NoUsage

\* an overall success that one successful iteration is enough for
OverallSuccessSome(rs) == \E i \in DOMAIN rs : rs[i].success

\* results.every(r => r.success)
OverallSuccess(rs) == \A i \in DOMAIN rs : rs[i].success

Return ==
    /\ runState = "running"
    /\ \A t \in Runs : pc[t] = "done"
    /\ runState' = "returned"
    /\ report' = [iterations |-> ModeResults,
                  success |-> OverallSuccess(ModeResults),
                  tokenUsage |-> ReportTokenUsage(ModeResults),
                  aggregateScores |-> CalculateAggregateScores(ModeResults),
                  overall |-> OverallAggregate(ModeResults)]
    /\ UNCHANGED <<scorerContext, stream, allMessages, tokenUsage, written, util, thrown, lastCommand, config, world, combinations, next, started, pc, tempDir, envVars,
                   originalEnv, diff, scores, result, results, processEnv, fs,
                   wrote, uuids>>

\* a rejected runSingleIteration promise rejects the await of the mode, and
\* with it runClaudeCodeEval
Reject ==
    /\ runState = "running"
    /\ \E t \in Runs : pc[t] = "rejected"
    /\ runState' = "rejected"
    /\ thrown' = "environment variables"
    /\ UNCHANGED <<scorerContext, stream, allMessages, tokenUsage, written, util, lastCommand, config, world, combinations, next, started, pc, tempDir, envVars,
                   originalEnv, diff, scores, result, results, processEnv, fs,
                   wrote, uuids, report>>

\* ------------------------------------------------------------ writeResults
\* `iteration-${iteration.promptId}-${iteration.iterationId}.log`
LogFilename(iteration) ==
    <<"iteration", iteration.promptId, iteration.iterationId, ".log">>

\* fs.writeFile(path, ...): the directory holds one file per distinct name
WriteFile(dir, name) == dir \cup {name}

RECURSIVE WriteLogs(_, _, _)
WriteLogs(dir, iterations, i) ==
    IF i > Len(iterations) THEN dir
    ELSE WriteLogs(WriteFile(dir, LogFilename(iterations[i])), iterations, i + 1)

\* writeResults(result, outputDir), called with the returned EvalResult: the
\* new directory receives results.md, results.json and the iteration logs
WriteResults ==
    /\ runState = "returned"
    /\ written = {}
    /\ written' = WriteLogs(WriteFile(WriteFile({}, <<"results.md">>),
                                      <<"results.json">>),
                            report.iterations, 1)
    /\ UNCHANGED <<scorerContext, stream, allMessages, tokenUsage, util, thrown, lastCommand, config, world, runState, combinations, next, started, pc, tempDir,
                   envVars, originalEnv, diff, scores, result, results,
                   processEnv, fs, wrote, uuids, report>>

Step(t) ==
    \/ Start(t)
    \/ EnvDone(t)
    \/ EnvThrow(t)
    \/ CopyDone(t)
    \/ CopyFail(t)
    \/ GitDone(t)
    \/ GitFail(t)
    \/ InvokeAgent(t)
    \/ AgentMessage(t)
    \/ AgentDone(t)
    \/ AgentFail(t)
    \/ DiffDone(t)
    \/ DiffFail(t)
    \/ ScorerDone(t)
    \/ ScorerThrow(t)
    \/ RemoveDone(t)

Next ==
    \/ ValidateOk
    \/ ValidateThrow
    \/ \E t \in DOMAIN pc : Step(t)
    \/ Return
    \/ Reject
    \/ WriteResults

Spec == Init /\ [][Next]_vars

\* the event loop runs a continuation that is ready, and a collaborator that
\* can answer does answer
FairSpec == Spec /\ WF_vars(Next)

\* ======================================================= utility functions
\* what a call has thrown, warned about and returned; nothing yet
NoOutput == [threw |-> "", warned |-> {}, packageManager |-> ""]

\* the characters of a name, each a string of length one
UpperCase == <<"A", "B", "C", "D", "E", "F", "G", "H", "I", "J", "K", "L", "M",
               "N", "O", "P", "Q", "R", "S", "T", "U", "V", "W", "X", "Y", "Z">>
LowerCase == <<"a", "b", "c", "d", "e", "f", "g", "h", "i", "j", "k", "l", "m",
               "n", "o", "p", "q", "r", "s", "t", "u", "v", "w", "x", "y", "z">>
Digits == {"0", "1", "2", "3", "4", "5", "6", "7", "8", "9"}

\* String.prototype.toUpperCase on one character
CharToUpperCase(c) ==
    IF \E i \in DOMAIN LowerCase : LowerCase[i] = c
    THEN UpperCase[CHOOSE i \in DOMAIN LowerCase : LowerCase[i] = c]
    ELSE c

\* key.toUpperCase()
ToUpperCase(key) == [i \in DOMAIN key |-> CharToUpperCase(key[i])]

\* the character classes [A-Z_] and [A-Z0-9_]
InFirstClass(c) == (\E i \in DOMAIN UpperCase : UpperCase[i] = c) \/ c = "_"
InRestClass(c) == InFirstClass(c) \/ c \in Digits

\* the pattern without the i flag
NameRegexTestCaseSensitive(key) ==
    /\ Len(key) >= 1
    /\ InFirstClass(key[1])
    /\ \A i \in 2..Len(key) : InRestClass(key[i])

\* /^[A-Z_][A-Z0-9_]*$/i.test(key): with the i flag a character matches a
\* class when its upper case form is in the class
NameRegexTest(key) ==
    /\ Len(key) >= 1
    /\ InFirstClass(CharToUpperCase(key[1]))
    /\ \A i \in 2..Len(key) : InRestClass(CharToUpperCase(key[i]))

CriticalVars ==
    { <<"P", "A", "T", "H">>,
      <<"N", "O", "D", "E", "_", "P", "A", "T", "H">>,
      <<"N", "O", "D", "E", "_", "E", "N", "V">>,
      <<"H", "O", "M", "E">>,
      <<"T", "M", "P", "D", "I", "R">> }

\* validateEnvironmentVariables(vars): the loop over Object.entries(vars)
\* from entry i on, after the warnings warned; it ends by returning or by
\* throwing for a name or for a value
RECURSIVE ValidateEntries(_, _, _)
ValidateEntries(entries, i, warned) ==
    IF i > Len(entries) THEN [NoOutput EXCEPT !.warned = warned]
    ELSE LET key == entries[i].key
             warnedNow == IF ToUpperCase(key) \in CriticalVars
                          THEN warned \cup {key}
                          ELSE warned
         IN  IF ~NameRegexTest(key)
             THEN [NoOutput EXCEPT !.threw = "name", !.warned = warned]
             ELSE IF entries[i].typeof # "string"
                  THEN [NoOutput EXCEPT !.threw = "value", !.warned = warnedNow]
                  ELSE ValidateEntries(entries, i + 1, warnedNow)

ValidateEnvironmentVariables(entries) == ValidateEntries(entries, 1, {})

\* lock files checked in an order that puts yarn first
LockFilesYarnFirst ==
    << [lockFile |-> "yarn.lock", packageManager |-> "yarn"],
       [lockFile |-> "bun.lockb", packageManager |-> "bun"],
       [lockFile |-> "bun.lock", packageManager |-> "bun"],
       [lockFile |-> "pnpm-lock.yaml", packageManager |-> "pnpm"],
       [lockFile |-> "package-lock.json", packageManager |-> "npm"] >>

\* const lockFiles, in order of specificity
LockFiles ==
    << [lockFile |-> "bun.lockb", packageManager |-> "bun"],
       [lockFile |-> "bun.lock", packageManager |-> "bun"],
       [lockFile |-> "pnpm-lock.yaml", packageManager |-> "pnpm"],
       [lockFile |-> "yarn.lock", packageManager |-> "yarn"],
       [lockFile |-> "package-lock.json", packageManager |-> "npm"] >>

\* the loop of detectPackageManager from lock file i on; files are the
\* names for which fs.pathExists(path.join(projectDir, name)) is true
RECURSIVE DetectFrom(_, _)
DetectFrom(files, i) ==
    IF i > Len(LockFiles) THEN "npm"
    ELSE IF LockFiles[i].lockFile \in files
         THEN LockFiles[i].packageManager
         ELSE DetectFrom(files, i + 1)

DetectPackageManager(files) == DetectFrom(files, 1)

\* names of up to MaxNameLen characters: an upper and a lower case letter, the
\* underscore, a digit and a character outside the classes; and names equal
\* or close to the critical ones
NameAlphabet == {"A", "z", "_", "7", "-"}
ShortNames == UNION { [1..n -> NameAlphabet] : n \in 0..MaxNameLen }
LongNames ==
    { <<"P", "A", "T", "H">>, <<"p", "a", "t", "h">>, <<"P", "a", "t", "h">>,
      <<"P", "A", "T", "H", "S">>, <<"_", "P", "A", "T", "H">>,
      <<"H", "O", "M", "E">>, <<"h", "o", "m", "e">>,
      <<"N", "O", "D", "E", "_", "E", "N", "V">>,
      <<"n", "o", "d", "e", "_", "p", "a", "t", "h">>,
      <<"N", "O", "D", "E", "-", "E", "N", "V">>,
      <<"t", "m", "p", "d", "i", "r">>, <<"T", "M", "P", "D", "I", "R">> }
EnvEntries ==
    [key : ShortNames \cup LongNames, typeof : {"string", "number", "undefined"}]

\* records of no, one or two entries with different names
EnvRecords ==
    {<< >>} \cup { <<e>> : e \in EnvEntries }
        \cup { <<e[1], e[2]>> :
                 e \in { f \in EnvEntries \X EnvEntries : f[1].key # f[2].key } }

\* the files of a project directory
ProjectFiles == {"bun.lockb", "bun.lock", "pnpm-lock.yaml", "yarn.lock",
                 "package-lock.json", "package.json"}

UtilCalls ==
    { [fn |-> "validateEnvironmentVariables", vars |-> e, projectDir |-> {},
       returned |-> FALSE, output |-> NoOutput] : e \in EnvRecords }
    \cup
    { [fn |-> "detectPackageManager", vars |-> << >>, projectDir |-> f,
       returned |-> FALSE, output |-> NoOutput] : f \in SUBSET ProjectFiles }

\* no evaluation runs; one utility function is about to be called
UtilInit ==
    /\ util \in UtilCalls
    /\ config = [prompts |-> 0, iterations |-> 1, mode |-> "sequential",
                 concurrency |-> 0, keepTempDir |-> FALSE,
                 tempDirCleanup |-> "unset", environmentVariables |-> "none",
                 scorers |-> 0, scorerKind |-> "function"]
    /\ world = [srcGit |-> TRUE, srcDirty |-> FALSE, agentEdits |-> TRUE,
                fault |-> "none", usage |-> "none"]
    /\ runState = "idle"
    /\ combinations = << >>
    /\ next = 0
    /\ started = << >>
    /\ pc = << >>
    /\ tempDir = << >>
    /\ envVars = << >>
    /\ originalEnv = << >>
    /\ diff = << >>
    /\ scores = << >>
    /\ result = << >>
    /\ results = << >>
    /\ processEnv = InitialEnv
    /\ fs = [p \in Paths |-> IF p = ProjectDir THEN Dir(TRUE, FALSE) ELSE Missing]
    /\ wrote = [p \in Paths |-> {}]
    /\ uuids = 0
    /\ report = NoReport
    /\ thrown = ""
    /\ lastCommand = << >>
    /\ tokenUsage = << >>
    /\ written = {}
    /\ stream = << >>
    /\ allMessages = << >>
    /\ scorerContext = << >>

ValidateEnvironmentVariablesCall ==
    /\ util.fn = "validateEnvironmentVariables"
    /\ ~util.returned
    /\ util' = [util EXCEPT !.returned = TRUE,
                            !.output = ValidateEnvironmentVariables(util.vars)]
    /\ UNCHANGED <<scorerContext, stream, allMessages, tokenUsage, written, thrown, lastCommand, config, world, runState, combinations, next, started, pc, tempDir,
                   envVars, originalEnv, diff, scores, result, results,
                   processEnv, fs, wrote, uuids, report>>

DetectPackageManagerCall ==
    /\ util.fn = "detectPackageManager"
    /\ ~util.returned
    /\ util' = [util EXCEPT !.returned = TRUE,
                            !.output = [NoOutput EXCEPT !.packageManager =
                                           DetectPackageManager(util.projectDir)]]
    /\ UNCHANGED <<scorerContext, stream, allMessages, tokenUsage, written, thrown, lastCommand, config, world, runState, combinations, next, started, pc, tempDir,
                   envVars, originalEnv, diff, scores, result, results,
                   processEnv, fs, wrote, uuids, report>>

UtilNext ==
    \/ ValidateEnvironmentVariablesCall
    \/ DetectPackageManagerCall

UtilSpec == UtilInit /\ [][UtilNext]_vars

\* ================================================================== claims
Returned == runState = "returned"
ReportIds == {report.iterations[i].iterationId : i \in DOMAIN report.iterations}
NoneRejected == \A u \in DOMAIN pc : pc[u] # "rejected"

\* C1: in every mode the returned report holds exactly prompts x iterations
\* results whose iterationId values are exactly 0 .. prompts x iterations - 1,
\* without duplicate or gap.
C1_IterationIdsAreExactRange ==
    Returned =>
        /\ Len(report.iterations) = NumRuns
        /\ ReportIds = 0..(NumRuns - 1)

\* C2: in parallel-limit mode the number of runSingleIteration calls that have
\* started and not yet completed never exceeds the configured concurrency.
C2_InFlightAtMostConcurrency ==
    config.mode = "parallel-limit" => Cardinality(InFlight) <= config.concurrency

C2_Witness ==
    /\ config.mode = "parallel-limit"
    /\ config.concurrency = 2
    /\ Cardinality(InFlight) = 2
    /\ next < NumRuns

\* C3: a failed iteration (copy, git, agent, diff or scorer error) never stops
\* the others: while iterations remain some iteration can take a step, and the
\* returned report holds the result of every iteration, each as its own
\* runSingleIteration produced it, under the id given at generation. (An agent
\* that never ends is no failure: it is the subject of C19.)
SameCount(r) ==
    Cardinality({i \in DOMAIN report.iterations : report.iterations[i] = r})
        = Cardinality({t \in Runs : result[t] = r})

C4_ExactlyOneAttempt ==
    /\ \A t \in DOMAIN started :
        /\ started[t] <= 1
        /\ started[t] = 1 <=> pc[t] # "queued"
    /\ (runState # "validating" /\ config.mode # "parallel")
          => Len(results) = Cardinality({t \in DOMAIN pc : pc[t] = "done"})
    /\ Returned =>
          /\ \A t \in Runs : started[t] = 1
          /\ Len(report.iterations) = NumRuns

C4_Witness ==
    /\ Returned
    /\ NumRuns >= 2
    /\ \E t \in Runs : result[t].error = "agent failed" /\ started[t] = 1

\* C5: in every mode and for every completion order, the iterations of the
\* returned report are in generation order, with ascending iterationId.
C5_ReportInGenerationOrder ==
    Returned =>
        /\ \A i, j \in DOMAIN report.iterations :
              i < j => report.iterations[i].iterationId
                           <= report.iterations[j].iterationId
        /\ report.iterations = [t \in Runs |-> result[t]]

C5_Witness ==
    /\ Returned
    /\ config.mode = "parallel-limit"
    /\ results # report.iterations

\* C6: parallel-limit with concurrency 1 returns the result list sequential
\* mode returns for the same inputs and collaborator outcomes, with the same
\* order of starts and completions.
SequentialContext(t) ==
    [iteration |-> SequentialIteration(t), promptId |-> combinations[t].promptId]

AsSequential(t) ==
    [result[t] EXCEPT
        !.iterationId = SequentialIteration(t),
        !.environmentVariables = GenerateEnvironmentVariables(SequentialContext(t))]

C6_LimitOneEqualsSequential ==
    (config.mode = "parallel-limit" /\ config.concurrency = 1) =>
        /\ Cardinality(InFlight) <= 1
        /\ Returned => report.iterations = [t \in Runs |-> AsSequential(t)]

\* what sequential mode itself returns, for comparison with C6
SequentialReturnsAsSequential ==
    (config.mode = "sequential" /\ Returned)
        => report.iterations = [t \in Runs |-> AsSequential(t)]

\* C7: no step of any iteration writes to or deletes anything in projectDir:
\* its content is the same throughout the run.
C7_ProjectDirUntouched ==
    /\ fs[ProjectDir] = Dir(world.srcGit, world.srcDirty)
    /\ wrote[ProjectDir] = {}

C7_Witness ==
    \E t, u, v \in DOMAIN pc :
        /\ t # u
        /\ pc[t] = "diff" /\ fs[tempDir[t]].agentMod
        /\ pc[u] = "diff" /\ fs[tempDir[u]].agentMod
        /\ pc[v] = "done" /\ ~fs[tempDir[v]].exists

\* C8: every iteration has its own tempDir: no two iterations of a run get the
\* same path, and a temp directory is written only by the iteration owning it.
C8_OwnTempDir ==
    /\ \A t, u \in DOMAIN pc :
          (t # u /\ pc[t] # "queued" /\ pc[u] # "queued")
              => tempDir[t] # tempDir[u]
    /\ \A p \in Paths \ {ProjectDir} :
          \A t \in wrote[p] : tempDir[t] = p

C8_Witness ==
    \E t, u \in DOMAIN pc :
        /\ t # u
        /\ pc[t] = "agent" /\ fs[tempDir[t]].exists
        /\ pc[u] = "agent" /\ fs[tempDir[u]].exists

\* C9: the environment variables of an iteration are never written to
\* process.env: process.env never holds a value an iteration injected.
C9_ProcessEnvNeverHoldsInjectedValue ==
    processEnv = InitialEnv

\* C10: success of an IterationResult is true exactly when the iteration ended
\* without error and every score of its scores is 1.0.
HasResult(t) == pc[t] \in {"remove", "done"}

C10_SuccessIffNoErrorAndAllScoresOne ==
    \A t \in DOMAIN pc :
        HasResult(t) =>
            (result[t].success <=>
                /\ result[t].error = ""
                /\ \A i \in DOMAIN result[t].scores : result[t].scores[i] = 10)

C10_Witness ==
    \E t \in DOMAIN pc :
        /\ pc[t] = "done"
        /\ result[t].error = ""
        /\ result[t].scores = <<5>>
        /\ ~result[t].success

\* C11: for every scorer that appears in the scores of some iteration of the
\* report, the aggregate passRate is the number of iterations whose score of
\* that scorer is at least 1.0 divided by the number of iterations that
\* reported the scorer; iterations without that score are in neither count.
Reporting(name) ==
    {i \in DOMAIN report.iterations : name \in DOMAIN report.iterations[i].scores}

C11_PassRateOverReportingTrials ==
    Returned =>
        \A name \in 1..config.scorers :
            Reporting(name) # {} =>
                /\ name \in DOMAIN report.aggregateScores
                /\ report.aggregateScores[name].passRate.den
                       = Cardinality(Reporting(name))
                /\ report.aggregateScores[name].passRate.num
                       = Cardinality({i \in Reporting(name) :
                                        report.iterations[i].scores[name] >= 10})

C11_Witness ==
    /\ Returned
    /\ config.prompts = 1 /\ config.iterations = 3
    /\ [i \in 1..3 |-> report.iterations[i].scores] = << <<10>>, <<10>>, <<0>> >>
    /\ report.aggregateScores[1].passRate = Ratio(2, 3)
    /\ ~report.success
    /\ Len(report.iterations) = 3

\* C12: the success of the report is true exactly when every iteration of the
\* report has success true; a run with a failed iteration still returns a
\* report holding every iteration, with success false.
C12_OverallSuccessIsConjunction ==
    Returned =>
        /\ report.success
              <=> (\A i \in DOMAIN report.iterations : report.iterations[i].success)
        /\ Len(report.iterations) = NumRuns

C12_Witness ==
    /\ Returned
    /\ ~report.success
    /\ Len(report.iterations) = NumRuns
    /\ \E i, j \in DOMAIN report.iterations :
          report.iterations[i].success /\ ~report.iterations[j].success

\* C13: every component of the _overall aggregate (mean, min, max, stdDev,
\* passRate) equals the number of successful iterations divided by the number
\* of iterations.
SuccessRate ==
    Ratio(Cardinality({i \in DOMAIN report.iterations : report.iterations[i].success}),
          Len(report.iterations))

C13_OverallComponentsAllEqualRate ==
    Returned =>
        /\ RatioEq(report.overall.mean, SuccessRate)
        /\ RatioEq(report.overall.min, SuccessRate)
        /\ RatioEq(report.overall.max, SuccessRate)
        /\ RatioEq(report.overall.passRate, SuccessRate)
        /\ RatioEq(report.overall.variance, RatioSquare(SuccessRate))

\* C14: with mode parallel-limit and no concurrency, runClaudeCodeEval throws
\* the "concurrency is required" configuration error before any temp
\* directory is created and before any runSingleIteration is called: no
\* result and no report is produced.
NothingStarted ==
    /\ next = 0
    /\ uuids = 0
    /\ pc = << >>
    /\ results = << >>
    /\ report = NoReport
    /\ \A p \in Paths \ {ProjectDir} : ~fs[p].exists /\ wrote[p] = {}

C15_EmptyPromptsThrowFirst ==
    config.prompts = 0 =>
        /\ runState \in {"validating", "configError"}
        /\ NothingStarted
        /\ runState = "configError"
              => thrown = "At least one prompt is required in config.prompts array"

C15_Witness ==
    /\ config.prompts = 0
    /\ runState = "configError"
    /\ thrown = "At least one prompt is required in config.prompts array"
    /\ ~ENABLED Next

\* C16: a scorer that throws does not abort its iteration: no result carries
\* a scorer's error as the error of the iteration, the result holds one score
\* for every configured scorer, and the scores of the scorers that already
\* ran are kept in it.
IsPrefix(a, b) == Len(a) <= Len(b) /\ SubSeq(b, 1, Len(a)) = a

C16_ThrowingScorerIsContained ==
    \A t \in DOMAIN pc :
        HasResult(t) =>
            /\ result[t].error # "scorer failed"
            /\ IsPrefix(scores[t], result[t].scores)
            /\ result[t].error = "" => Len(result[t].scores) = config.scorers

\* C17: execCommand never throws: a scorer made of it never fails its
\* iteration, its score is 1.0 when the command exits with code 0 within the
\* timeout and 0.0 when the command fails, cannot be spawned or times out,
\* and it returns no other score.
C17_ExecCommandScoresOneOrZero ==
    config.scorerKind = "command" =>
        \A t \in DOMAIN pc :
            /\ result[t].error # "scorer failed"
            /\ \A i \in DOMAIN scores[t] : scores[t][i] \in {0, 10}
            /\ lastCommand[t] # "none" =>
                  /\ scores[t] # << >>
                  /\ scores[t][Len(scores[t])] = 10 <=> lastCommand[t] = "exit0"
                  /\ scores[t][Len(scores[t])] = 0
                        <=> lastCommand[t] \in {"nonzero", "spawn", "timeout"}

C17_Witness ==
    \E t \in DOMAIN pc :
        /\ config.scorerKind = "command"
        /\ pc[t] = "done"
        /\ lastCommand[t] = "timeout"
        /\ result[t].scores = <<0>>
        /\ result[t].error = ""

\* C18: only configuration errors make runClaudeCodeEval reject: when the
\* environment variable function throws or the generated variables fail
\* validation, no runSingleIteration promise rejects and the run does not
\* reject.
C18_OnlyConfigurationErrorsReject ==
    /\ runState # "rejected"
    /\ \A t \in DOMAIN pc : pc[t] # "rejected"

\* C19: the await of the agent's message stream always ends: an iteration
\* that awaits its agent can continue, with the end of the stream, with an
\* error, or with the timeout that aborts it, so it always gets a result.
C19_AgentAwaitAlwaysEnds ==
    \A t \in DOMAIN pc :
        (pc[t] = "agent" /\ MayStep) =>
            ENABLED (AgentMessage(t) \/ AgentDone(t) \/ AgentFail(t))

\* C20: when an iteration has ended, on every exit path, its temp directory
\* is deleted under 'always', deleted exactly when the iteration succeeded
\* under 'on-failure', and not deleted under 'never'; keepTempDir false
\* behaves as 'always' and keepTempDir true as 'never'.
CleanupPolicy ==
    IF config.tempDirCleanup # "unset" THEN config.tempDirCleanup
    ELSE IF config.keepTempDir THEN "never" ELSE "always"

\* the temp directory of t was created by the copy
Provisioned(t) == result[t].error # "copy failed"

C20_CleanupFollowsPolicy ==
    \A t \in DOMAIN pc :
        pc[t] = "done" =>
            CASE CleanupPolicy = "always" -> ~fs[tempDir[t]].exists
              [] CleanupPolicy = "on-failure" ->
                    IF result[t].success
                    THEN ~fs[tempDir[t]].exists
                    ELSE Provisioned(t) => fs[tempDir[t]].exists
              [] OTHER -> Provisioned(t) => fs[tempDir[t]].exists

C20_Witness ==
    \E t \in DOMAIN pc :
        /\ config.tempDirCleanup = "on-failure"
        /\ pc[t] = "done"
        /\ result[t].error = "" /\ ~result[t].success
        /\ fs[tempDir[t]].exists

\* C21: the result of an ended iteration carries workingDir exactly when its
\* temp directory was kept and still exists, and then workingDir is that
\* directory: a kept directory of an iteration that failed with an error is
\* recorded, and no result points to a deleted directory.
C21_WorkingDirIffRetained ==
    \A t \in DOMAIN pc :
        pc[t] = "done" =>
            /\ result[t].workingDir # NoPath <=> fs[tempDir[t]].exists
            /\ result[t].workingDir # NoPath => result[t].workingDir = tempDir[t]

\* C22: with M iterations, the result with iterationId k carries the promptId
\* of the prompt at index floor(k / M) of config.prompts, in every mode and
\* for every completion order.
C22_PromptOfIterationId ==
    Returned =>
        \A i \in DOMAIN report.iterations :
            report.iterations[i].promptId
                = (report.iterations[i].iterationId \div config.iterations) + 1

\* C23 as stated: without scorers every iteration has success true and the
\* passRate of _overall is 1.0.
C23_NoScorersAllSucceed ==
    config.scorers = 0 =>
        /\ \A t \in DOMAIN pc : HasResult(t) => result[t].success
        /\ Returned => RatioEq(report.overall.passRate, Ratio(1, 1))

\* C23 as amended: without scorers an iteration has success true exactly
\* when it ended without error, and the passRate of _overall is the share of
\* the iterations that ended without error: 1.0 when none failed with an
\* error.
WithoutError ==
    {i \in DOMAIN report.iterations : report.iterations[i].error = ""}

C23_NoScorersSuccessIffNoError ==
    config.scorers = 0 =>
        /\ \A t \in DOMAIN pc :
              HasResult(t) => (result[t].success <=> result[t].error = "")
        /\ Returned =>
              /\ RatioEq(report.overall.passRate,
                         Ratio(Cardinality(WithoutError), NumRuns))
              /\ WithoutError = DOMAIN report.iterations
                    => RatioEq(report.overall.passRate, Ratio(1, 1))

C23_Witness ==
    /\ config.scorers = 0
    /\ Returned
    /\ NumRuns >= 2
    /\ \A i \in DOMAIN report.iterations :
          report.iterations[i].success /\ report.iterations[i].scores = << >>
    /\ report.overall.passRate = Ratio(NumRuns, NumRuns)

\* C24: each field of the tokenUsage of the report is the sum of that field
\* over the iterations that carry a tokenUsage; an iteration without one and
\* an absent cache field count as zero.
Reported(field) ==
    Sum([i \in DOMAIN report.iterations |->
            IF /\ report.iterations[i].tokenUsage.reported
               /\ report.iterations[i].tokenUsage[field] # Undefined
            THEN report.iterations[i].tokenUsage[field]
            ELSE 0])

C24_TotalUsageIsSum ==
    (Returned /\ report.tokenUsage.reported) =>
        \A field \in {"inputTokens", "outputTokens",
                       "cacheCreationInputTokens", "cacheReadInputTokens"} :
            report.tokenUsage[field] = Reported(field)

C24_Witness ==
    /\ Returned
    /\ Len(report.iterations) = 3
    /\ {report.iterations[i].tokenUsage : i \in 1..3}
          = {NoUsage, Usage(1, 0, Undefined, 2), Usage(2, 1, 1, Undefined)}
    /\ report.tokenUsage = Usage(3, 1, 1, 2)

\* C25: validateEnvironmentVariables throws exactly when some name is not a
\* letter or underscore followed only by letters, digits and underscores, or
\* some value is not a string; a name that equals PATH, NODE_PATH, NODE_ENV,
\* HOME or TMPDIR in any letter case is warned about and accepted.
Letters ==
    {UpperCase[i] : i \in DOMAIN UpperCase} \cup {LowerCase[i] : i \in DOMAIN LowerCase}

WellFormedName(key) ==
    /\ Len(key) >= 1
    /\ key[1] \in Letters \cup {"_"}
    /\ \A i \in 2..Len(key) : key[i] \in Letters \cup Digits \cup {"_"}

EqualIgnoringCase(a, b) ==
    /\ Len(a) = Len(b)
    /\ \A i \in DOMAIN a :
          \/ a[i] = b[i]
          \/ \E j \in DOMAIN UpperCase : {a[i], b[i]} = {UpperCase[j], LowerCase[j]}

IsCriticalName(key) == \E c \in CriticalVars : EqualIgnoringCase(key, c)

Validated == util.fn = "validateEnvironmentVariables" /\ util.returned

C25_ThrowsIffBadNameOrValue ==
    Validated =>
        LET entries == util.vars
            bad == \E i \in DOMAIN entries :
                      \/ ~WellFormedName(entries[i].key)
                      \/ entries[i].typeof # "string"
        IN  /\ util.output.threw # "" <=> bad
            /\ ~bad => util.output.warned =
                          { entries[i].key : i \in { j \in DOMAIN entries :
                                                      IsCriticalName(entries[j].key) } }

C25_Witness ==
    /\ Validated
    /\ Len(util.vars) = 2
    /\ util.output.threw = ""
    /\ util.output.warned = {<<"p", "a", "t", "h">>}
    /\ util.vars[2].key = <<"z", "7">>

\* C26: for every set of lock files in the project directory
\* detectPackageManager returns bun when bun.lockb or bun.lock is present,
\* else pnpm when pnpm-lock.yaml is present, else yarn when yarn.lock is
\* present, else npm (with or without package-lock.json).
Detected == util.fn = "detectPackageManager" /\ util.returned

C26_FirstLockFileWins ==
    Detected =>
        util.output.packageManager =
            IF "bun.lockb" \in util.projectDir \/ "bun.lock" \in util.projectDir
            THEN "bun"
            ELSE IF "pnpm-lock.yaml" \in util.projectDir THEN "pnpm"
            ELSE IF "yarn.lock" \in util.projectDir THEN "yarn"
            ELSE "npm"

C26_Witness ==
    /\ Detected
    /\ {"bun.lock", "yarn.lock", "package-lock.json"} \subseteq util.projectDir
    /\ "bun.lockb" \notin util.projectDir
    /\ util.output.packageManager = "bun"

\* C27: the environment variables of an iteration are generated in one step
\* only, the step that ends its wait for generateEnvironmentVariables, which
\* an iteration takes at most once; they are the empty record when none are
\* configured, the configured record when it is static, and the value of the
\* configured function for the iteration's own context otherwise, whose
\* iteration is the iterationId of the iteration's result.
C27_ProviderOncePerTrial ==
    [][\A t \in DOMAIN pc :
          /\ (pc[t] = "env" /\ pc'[t] = "copy") =>
                envVars'[t] =
                    CASE config.environmentVariables = "none" -> EmptyEnv
                      [] config.environmentVariables = "static" ->
                            [k \in {"DB"} |-> <<"static">>]
                      [] OTHER ->
                            [k \in {"DB"} |-> <<"db", combinations[t].iteration>>]
          /\ ~(pc[t] = "env" /\ pc'[t] = "copy") => envVars'[t] = envVars[t]
          /\ pc'[t] = "env" => pc[t] \in {"queued", "env"}
          /\ (pc'[t] \in {"remove", "done"} /\ config.environmentVariables = "function")
                => result'[t].environmentVariables =
                      [k \in {"DB"} |-> <<"db", result'[t].iterationId>>]
      ]_vars

C27_Witness ==
    /\ config.mode = "parallel"
    /\ config.environmentVariables = "function"
    /\ \E t, u \in DOMAIN pc :
          /\ pc[t] \in {"remove", "done"} /\ pc[u] \in {"remove", "done"}
          /\ result[t].error = "" /\ result[u].error = ""
          /\ result[t].environmentVariables # result[u].environmentVariables

\* C28: writeResults writes results.md, results.json and for every iteration
\* of the report a log file named after its promptId and iterationId, so the
\* directory holds as many log files as the report has iterations.
LogFiles == { f \in written : f[1] = "iteration" }

C28_OneLogPerIteration ==
    written # {} =>
        /\ <<"results.md">> \in written
        /\ <<"results.json">> \in written
        /\ \A i \in DOMAIN report.iterations :
              LogFilename(report.iterations[i]) \in written
        /\ Cardinality(LogFiles) = Len(report.iterations)

\* C29: in sequential mode the iterations are started in generation order,
\* and an iteration is started only when every earlier one has ended, its
\* temp directory cleaned up included.
C29_SequentialOneAtATime ==
    config.mode = "sequential" =>
        \A t \in DOMAIN pc :
            /\ pc[t] # "queued" <=> t <= next
            /\ pc[t] # "queued" =>
                  \A u \in 1..(t - 1) :
                      /\ pc[u] = "done"
                      /\ CleanupPolicy = "always" => ~fs[tempDir[u]].exists

C29_Witness ==
    /\ config.mode = "sequential"
    /\ 2 \in DOMAIN pc
    /\ pc[1] = "done" /\ result[1].error = "" /\ ~fs[tempDir[1]].exists
    /\ pc[2] = "env"

\* C30: in parallel mode every iteration is started before any started one
\* has taken a step, whatever the others do, so all iterations are in flight
\* together; the run returns only when all of them have ended.
C30_ParallelStartsAllAtOnce ==
    config.mode = "parallel" =>
        /\ (runState = "running" /\ next < NumRuns) =>
              /\ \A t \in 1..next : pc[t] = "env"
              /\ ENABLED Start(next + 1)
        /\ Returned => \A t \in Runs : pc[t] = "done"

C30_Witness ==
    /\ config.mode = "parallel"
    /\ NumRuns >= 3
    /\ Cardinality(InFlight) = NumRuns
    /\ \E t, u \in Runs : pc[t] = "remove" /\ pc[u] = "env"

\* C31: in parallel-limit mode an iteration is started only when every
\* iteration generated before it has been started and fewer than concurrency
\* iterations are in flight.
C31_AdmittedInOrderBelowLimit ==
    [][config.mode = "parallel-limit" =>
          \A t \in DOMAIN pc :
              (pc[t] = "queued" /\ pc'[t] # "queued") =>
                  /\ \A u \in 1..(t - 1) : pc[u] # "queued"
                  /\ Cardinality(InFlight) < config.concurrency
      ]_vars

C31_Witness ==
    /\ config.mode = "parallel-limit"
    /\ config.concurrency = 2
    /\ 3 \in DOMAIN pc
    /\ pc[1] = "agent" /\ pc[2] = "done" /\ pc[3] = "env"

\* C32: an iteration goes through copy, git baseline, .env file, agent, diff,
\* scorers and cleanup in that order (an error leads to the cleanup); what
\* it has collected of the agent's messages is always the beginning of the
\* stream in emission order, and it leaves the agent for the diff and the
\* scorers only with every message of the stream collected.
StepOrder ==
    { <<"queued", "env">>, <<"env", "copy">>, <<"env", "rejected">>,
      <<"copy", "git">>, <<"git", "write">>, <<"write", "agent">>,
      <<"agent", "diff">>, <<"diff", "score">>, <<"remove", "done">> }
    \cup ({"copy", "git", "agent", "diff", "score"} \X {"remove", "done"})

C32_StepsInOrderStreamDrained ==
    [][\A t \in DOMAIN pc :
          /\ pc'[t] # pc[t] => <<pc[t], pc'[t]>> \in StepOrder
          /\ pc[t] = "agent" => IsPrefix(allMessages[t], stream[t])
          /\ (pc[t] = "agent" /\ pc'[t] = "diff") => allMessages[t] = stream[t]
          /\ pc'[t] \in {"diff", "score"} => allMessages'[t] = stream'[t]
          /\ diff'[t] # diff[t] => pc[t] = "diff"
          /\ scores'[t] # scores[t] => pc[t] = "score"
          /\ pc'[t] = "agent" =>
                /\ fs'[tempDir[t]].exists /\ fs'[tempDir[t]].git
                /\ fs'[tempDir[t]].envFile <=> DOMAIN envVars[t] # {}
      ]_vars

C32_Witness ==
    \E t \in DOMAIN pc :
        /\ pc[t] = "score"
        /\ Len(stream[t]) = 2
        /\ stream[t][1].type = "result" /\ stream[t][2].type = "assistant"
        /\ allMessages[t] = stream[t]

\* C33: the diff of an iteration is taken in one step only, the one that
\* follows the end of the agent; every scorer of the iteration is called with
\* that value, whatever earlier scorers did to the directory, and a result
\* without error carries that value.
Finishing(t) == pc[t] \notin {"remove", "done"} /\ pc'[t] \in {"remove", "done"}

C34_TerminatingRunReturns ==
    (runState = "running" /\ world.fault # "hang") ~> Returned

\* the same without an environment function that throws
TerminatingRunReturnsUnlessEnvThrows ==
    (runState = "running" /\ world.fault \notin {"hang", "env"}) ~> Returned

\* a queued iteration is admitted whenever fewer than concurrency are in
\* flight
NoLostWakeUp ==
    (/\ config.mode = "parallel-limit"
     /\ runState = "running"
     /\ next < NumRuns
     /\ NoneRejected
     /\ Cardinality(InFlight) < config.concurrency) => ENABLED Start(next + 1)

\* C35: when the run has returned, in every mode and after every
\* interleaving, process.env is what it was before the run.
C35_ProcessEnvRestored == Returned => processEnv = InitialEnv

\* the same for sequential runs only
SequentialProcessEnvRestored ==
    (Returned /\ config.mode = "sequential") => processEnv = InitialEnv

\* C36: while an iteration awaits its agent, from the call of query() to the
\* end of the message stream, process.env (the environment the agent sees)
\* holds the iteration's own value for every variable generated for it.
SeesOwnValues(t) ==
    \A k \in DOMAIN envVars[t] :
        k \in DOMAIN processEnv /\ processEnv[k] = envVars[t][k]

C36_AgentSeesOwnValues ==
    \A t \in DOMAIN pc : pc[t] = "agent" => SeesOwnValues(t)

\* the same for sequential runs only
SequentialAgentSeesOwnValues ==
    config.mode = "sequential" =>
        \A t \in DOMAIN pc : pc[t] = "agent" => SeesOwnValues(t)

\* C37: a result with an error has success false, no scores and an empty
\* diff, whichever of the copy, the git baseline, the agent, the diff or a
\* scorer failed, and it holds the environment variables generated for its
\* iteration; so has its entry in the returned report.
IsErrorResult(r) ==
    /\ r.error \in {"copy failed", "git failed", "agent failed", "diff failed",
                    "scorer failed"}
    /\ ~r.success
    /\ r.scores = << >>
    /\ r.diff = {}

C37_ErrorResultsAreEmpty ==
    /\ \A t \in DOMAIN pc :
          (HasResult(t) /\ result[t].error # "") =>
              /\ IsErrorResult(result[t])
              /\ result[t].environmentVariables = envVars[t]
              /\ config.environmentVariables = "function" =>
                    result[t].environmentVariables =
                        [k \in {"DB"} |-> <<"db", combinations[t].iteration>>]
    /\ Returned =>
          \A i \in DOMAIN report.iterations :
              report.iterations[i].error # "" => IsErrorResult(report.iterations[i])

C37_Witness ==
    \E t \in DOMAIN pc :
        /\ HasResult(t)
        /\ result[t].error = "scorer failed"
        /\ diff[t] # {}
        /\ result[t].diff = {}
        /\ result[t].environmentVariables # EmptyEnv

\* C38: the returned report carries a total tokenUsage exactly when the sum
\* of some usage field over the iterations is not zero.
UsageFields ==
    {"inputTokens", "outputTokens", "cacheCreationInputTokens",
     "cacheReadInputTokens"}

C38_TotalIncludedIffNonZero ==
    Returned =>
        (report.tokenUsage.reported <=> \E field \in UsageFields : Reported(field) > 0)

\* the report carries the total exactly when the summed inputTokens is not
\* zero
TotalIncludedIffInputNonZero ==
    Returned => (report.tokenUsage.reported <=> Reported("inputTokens") > 0)

\* C39: the diff of an iteration whose agent changed nothing is empty, whether
\* the project was a git repository or not, had uncommitted changes or not,
\* and whether a .env file was written or not.
C39_NoAgentChangeNoDiff ==
    \A t \in DOMAIN pc :
        (HasResult(t) /\ result[t].error = "" /\ ~world.agentEdits) =>
            result[t].diff = {}

\* the same for projects without uncommitted changes
CleanProjectNoAgentChangeNoDiff ==
    \A t \in DOMAIN pc :
        (HasResult(t) /\ result[t].error = "" /\ ~world.agentEdits
            /\ ~world.srcDirty) => result[t].diff = {}

====
